---- MODULE Spec2Model ----
(***************************************************************************)
(* The ephemeral full-text search of zoteroutils (search.py): each search  *)
(* call is a straight-line sequence of SQL statements on a SQLite          *)
(* connection.  A statement is one atomic step; an exception raised by a   *)
(* statement ends the call at that statement (the functions hold no        *)
(* try/finally).                                                           *)
(***************************************************************************)
EXTENDS Integers, Sequences, FiniteSets, TLC

(***************************************************************************)
(* Bounds of the model.                                                    *)
(***************************************************************************)
\* length of the keys string of a single search on a fresh connection
MaxKeyLen == 3
\* length of the keys string where calls follow or interleave each other
MaxShortKeyLen == 1
\* length of item_ids
MaxIds == 1
\* calls one caller makes one after the other
MaxCalls == 2
\* calls each of two concurrent callers makes
MaxConcCalls == 1
\* number of last names passed to authors_agg
MaxAuthors == 4

(***************************************************************************)
(* Values.                                                                 *)
(***************************************************************************)
\* SQL NULL in an integer column (parentItemID of a standalone attachment)
NULL == 0

Threads == {1, 2}
Conns == {1, 2}

\* characters a keys string is made of; words are sequences of letters
Letters == {"a", "b"}
Chars == Letters \cup {" "}

StrUpTo(n) == UNION {[1..k -> Chars] : k \in 0..n}

SeqUpTo(S, n) == UNION {[1..k -> S] : k \in 0..n}

\* item ids a caller passes in item_ids: a document and an attachment
IdPool == {1, 3}

\* item_ids=None, or a sequence of ids
NoneIds == [given |-> FALSE, ids |-> <<>>]

ItemIdsUpTo(n) == {NoneIds} \cup {[given |-> TRUE, ids |-> s] : s \in SeqUpTo(IdPool, n)}

Ops == {"search_authors", "search_fields", "search_full_texts"}

\* last names passed to authors_agg
LastNames == {<<"a">>, <<"b">>, <<"a", "b">>}

(***************************************************************************)
(* The persistent schema (read-only for the search functions).             *)
(***************************************************************************)
PersistentTables ==
    {"items", "itemTypes", "creators", "itemCreators", "itemData",
     "itemDataValues", "itemAttachments", "fulltextWords", "fulltextItemWords"}

itemTypes == {[itemTypeID |-> 1, typeName |-> "attachment"],
              [itemTypeID |-> 2, typeName |-> "journalArticle"]}

items == {[itemID |-> 1, itemTypeID |-> 2], [itemID |-> 2, itemTypeID |-> 2],
          [itemID |-> 3, itemTypeID |-> 1], [itemID |-> 4, itemTypeID |-> 1]}

creators == {[creatorID |-> 1, firstName |-> <<"a">>, lastName |-> <<"b">>],
             [creatorID |-> 2, firstName |-> <<"b">>, lastName |-> <<"b">>]}

itemCreators == {[itemID |-> 1, creatorID |-> 1], [itemID |-> 1, creatorID |-> 2],
                 [itemID |-> 2, creatorID |-> 2]}

itemDataValues == {[valueID |-> 1, value |-> <<"a">>], [valueID |-> 2, value |-> <<"b">>]}

itemData == {[itemID |-> 1, valueID |-> 1], [itemID |-> 2, valueID |-> 1],
             [itemID |-> 2, valueID |-> 2], [itemID |-> 3, valueID |-> 1]}

\* "A": a character the tokenizer folds to "a" (an upper-case or an accented letter)
fulltextWords == {[wordID |-> 1, word |-> <<"a">>], [wordID |-> 2, word |-> <<"b">>],
                  [wordID |-> 3, word |-> <<"A">>]}

\* the attachment relation and the word associations vary between databases
AttachmentTables ==
    {{[itemID |-> 3, parentItemID |-> 1], [itemID |-> 4, parentItemID |-> p]} :
        p \in {1, 2, NULL}}

ItemWordTables ==
    {{[itemID |-> 3, wordID |-> w] : w \in W3} \cup {[itemID |-> 4, wordID |-> w] : w \in W4} :
        W3 \in {{1}, {1, 2}}, W4 \in {{1, 2}, {1, 2, 3}}}

Databases ==
    [itemAttachments : AttachmentTables, fulltextItemWords : ItemWordTables]

\* one database for the runs of several calls
SharedDatabase ==
    [itemAttachments |-> {[itemID |-> 3, parentItemID |-> 1], [itemID |-> 4, parentItemID |-> 2]},
     fulltextItemWords |-> {[itemID |-> 3, wordID |-> 1], [itemID |-> 4, wordID |-> 1],
                            [itemID |-> 4, wordID |-> 2]}]

(***************************************************************************)
(* Python string handling of the keys argument.                            *)
(***************************************************************************)
RECURSIVE SplitFrom(_, _, _, _)
SplitFrom(s, i, cur, acc) ==
    IF i > Len(s)
    THEN IF cur = <<>> THEN acc ELSE Append(acc, cur)
    ELSE IF s[i] = " "
         THEN SplitFrom(s, i + 1, <<>>, IF cur = <<>> THEN acc ELSE Append(acc, cur))
         ELSE SplitFrom(s, i + 1, Append(cur, s[i]), acc)

\* str.split(): the maximal runs of non-blank characters
Split(s) == SplitFrom(s, 1, <<>>, <<>>)

\* "\"{}\"".format(key)
Quote(key) == <<"\"">> \o key \o <<"\"">>

\* [Quote(key) for key in keys.split()]
QuotedKeys(s) == [i \in 1..Len(Split(s)) |-> Quote(Split(s)[i])]

(***************************************************************************)
(* FTS5: a quoted string is a phrase; a row matches a phrase when its text *)
(* holds the phrase's token.  Phrases are joined by AND (juxtaposition) or *)
(* OR; an expression without any phrase is a syntax error.  The tables are *)
(* created without a tokenize option: the default tokenizer folds case and *)
(* diacritics of the indexed text and of the phrases.                      *)
(***************************************************************************)
Phrase(q) == SubSeq(q, 2, Len(q) - 1)

Fold(w) == [i \in 1..Len(w) |-> IF w[i] = "A" THEN "a" ELSE w[i]]

\* the word w of an indexed text is the token of the phrase q
SameToken(w, q) == Fold(w) = Fold(Phrase(q))

Holds(text, q) == \E i \in 1..Len(text) : SameToken(text[i], q)

\* (variant) the phrases are joined by OR
MatchAllAsAny(text, qs) == \E i \in 1..Len(qs) : Holds(text, qs[i])

MatchAll(text, qs) == \A i \in 1..Len(qs) : Holds(text, qs[i])

MatchAny(text, qs) == \E i \in 1..Len(qs) : Holds(text, qs[i])

SyntaxError(qs) == qs = <<>>

\* ORDER BY rank: bm25 of a matching row, a function of the tokens of the row; the number of
\* its tokens stands for it (lower value first)
Rank(row) == Len(row.text)

(***************************************************************************)
(* Sequences from sets.                                                    *)
(***************************************************************************)
Perms(S) == {f \in [1..Cardinality(S) -> S] : \A i, j \in 1..Cardinality(S) : f[i] = f[j] => i = j}

Min(S) == CHOOSE x \in S : \A y \in S : x <= y

RECURSIVE Sorted(_)
Sorted(S) == IF S = {} THEN <<>> ELSE <<Min(S)>> \o Sorted(S \ {Min(S)})

\* GROUP_CONCAT(val) over the rows with keys ks, in key order
Concat(ks, val) == [i \in 1..Len(Sorted(ks)) |-> val[Sorted(ks)[i]]]

InIds(id, ids) == \E i \in 1..Len(ids) : ids[i] = id

(***************************************************************************)
(* The schemas.  `main` is shared by every connection to the database      *)
(* file; every connection has a temp schema of its own.  Only the          *)
(* transient objects are kept here: the persistent tables never change.    *)
(* A table carries the life-cycle phase of sec. 4.3 and, for every row,    *)
(* the call that inserted it.                                              *)
(***************************************************************************)
TransientNames == {"searchable", "searchable1", "searchable2"}

NoCall == <<0, 0>>

Absent == [phase |-> "UNCREATED", cols |-> 0, rows |-> {}, creator |-> NoCall]

Exists(tb) == tb.phase # "UNCREATED"

EmptySchema == [n \in TransientNames |-> Absent]

\* the three table names as the statements write them
TempSearchable == [schema |-> "temp", name |-> "searchable"]
Searchable1 == [schema |-> "", name |-> "searchable1"]
TempSearchable2 == [schema |-> "temp", name |-> "searchable2"]

\* (variant) every name is looked up in the temp schema only
SchemaOfTempOnly(tp, c, ref) == "temp"

\* an unqualified name is looked up in temp first, then in main
SchemaOf(tp, c, ref) ==
    IF ref.schema = "temp" \/ Exists(tp[c][ref.name]) THEN "temp" ELSE "main"

TableAt(m, tp, c, ref) ==
    IF SchemaOf(tp, c, ref) = "temp" THEN tp[c][ref.name] ELSE m[ref.name]

WithTable(m, tp, c, sch, name, tb) ==
    [main |-> IF sch = "main" THEN [m EXCEPT ![name] = tb] ELSE m,
     temp |-> IF sch = "temp" THEN [tp EXCEPT ![c][name] = tb] ELSE tp,
     err |-> ""]

Failed(m, tp, e) == [main |-> m, temp |-> tp, err |-> e]

\* DROP TABLE IF EXISTS <ref>;
DropTableIfExists(m, tp, c, ref) ==
    WithTable(m, tp, c, SchemaOf(tp, c, ref), ref.name, Absent)

\* a CREATE without schema name creates in main
CreateSchema(ref) == IF ref.schema = "temp" THEN "temp" ELSE "main"

\* CREATE VIRTUAL TABLE <ref> USING FTS5(...);
CreateVirtualTable(m, tp, c, ref, ncols, cid) ==
    LET sch == CreateSchema(ref)
        old == IF sch = "temp" THEN tp[c][ref.name] ELSE m[ref.name]
    IN  IF Exists(old)
        THEN Failed(m, tp, "table already exists")
        ELSE WithTable(m, tp, c, sch, ref.name,
                       [phase |-> "CREATED", cols |-> ncols, rows |-> {}, creator |-> cid])

\* INSERT INTO <ref> SELECT ...: `src` are the selected rows, of `ncols` columns
InsertInto(m, tp, c, ref, ncols, src, cid) ==
    LET tb == TableAt(m, tp, c, ref)
    IN  IF ~Exists(tb) THEN Failed(m, tp, "no such table")
        ELSE IF tb.cols # ncols THEN Failed(m, tp, "column count")
        ELSE WithTable(m, tp, c, SchemaOf(tp, c, ref), ref.name,
                       [tb EXCEPT !.phase = "POPULATED",
                                  !.rows = @ \cup {[id |-> r.id, text |-> r.text, by |-> cid] : r \in src}])

\* a SELECT has read <ref>
Selected(m, tp, c, ref) ==
    LET tb == TableAt(m, tp, c, ref)
    IN  WithTable(m, tp, c, SchemaOf(tp, c, ref), ref.name, [tb EXCEPT !.phase = "QUERIED"])

(***************************************************************************)
(* The aggregation queries of the three populate statements.               *)
(***************************************************************************)
\* (variant) item_ids=None is handled as an empty list of ids
FilteredNoneAsEmpty(rel, ids) == {r \in rel : InIds(r.itemID, ids.ids)}

\* search.py 150-154, 214-218: no WHERE clause when item_ids is None
Filtered(rel, ids) == IF ids.given THEN {r \in rel : InIds(r.itemID, ids.ids)} ELSE rel

CreatorOf(cr) == CHOOSE x \in creators : x.creatorID = cr

ValueOf(v) == CHOOSE x \in itemDataValues : x.valueID = v

\* search.py 163-167
AuthorRows(ids) ==
    LET part == Filtered(itemCreators, ids)
        joined == {r \in part : \E x \in creators : x.creatorID = r.creatorID}
        First == [x \in creators |-> x.firstName]
        Last == [x \in creators |-> x.lastName]
        Name(col) == [cr \in {x.creatorID : x \in creators} |-> col[CreatorOf(cr)]]
    IN  {[id |-> i,
          text |-> Concat({r.creatorID : r \in {x \in joined : x.itemID = i}}, Name(First))
                   \o Concat({r.creatorID : r \in {x \in joined : x.itemID = i}}, Name(Last))] :
            i \in {r.itemID : r \in joined}}

\* search.py 224-228
FieldRows(ids) ==
    LET part == Filtered(itemData, ids)
        joined == {r \in part : \E x \in itemDataValues : x.valueID = r.valueID}
        Value == [v \in {x.valueID : x \in itemDataValues} |-> ValueOf(v).value]
    IN  {[id |-> i,
          text |-> Concat({r.valueID : r \in {x \in joined : x.itemID = i}}, Value)] :
            i \in {r.itemID : r \in joined}}

\* search.py 274-284: the association rows of the attachments that are, or belong to, item_ids
PartialTable(d, ids) ==
    IF ids.given
    THEN {r \in d.fulltextItemWords :
            \E a \in d.itemAttachments :
                /\ a.itemID = r.itemID
                /\ \/ InIds(a.itemID, ids.ids)
                   \/ a.parentItemID # NULL /\ InIds(a.parentItemID, ids.ids)}
    ELSE d.fulltextItemWords

\* search.py 295: the index of searchable1 is built from its content table
VocabularyRows == {[id |-> w.wordID, text |-> <<w.word>>] : w \in fulltextWords}

\* (variant) the first stage joins the keys by AND
SmallTableAllKeys(s1, qs) == {r \in s1.rows : MatchAll(r.text, qs)}

\* search.py 298: the rows of searchable1 whose word matches any key
SmallTable(s1, qs) == {r \in s1.rows : MatchAny(r.text, qs)}

\* search.py 304-309: per attachment, the words it shares with the small table
FullTextRows(d, ids, s1, qs) ==
    LET part == PartialTable(d, ids)
        small == SmallTable(s1, qs)
        WordIds(i) == {r.wordID : r \in {x \in part : x.itemID = i}} \cap {x.id : x \in small}
        Word == [k \in {x.id : x \in small} |-> (CHOOSE x \in small : x.id = k).text[1]]
    IN  {[id |-> i, text |-> Concat(WordIds(i), Word)] :
            i \in {r.itemID : r \in {x \in part : WordIds(x.itemID) # {}}}}

(***************************************************************************)
(* The result sequences of the query statements.                           *)
(***************************************************************************)
\* search.py 171-175, 232-236: ... WHERE searchable MATCH keys ORDER BY rank
RankedResults(tb, qs) ==
    LET hits == {r \in tb.rows : MatchAll(r.text, qs)}
        n == Cardinality(hits)
    IN  {[i \in 1..n |-> p[i].id] :
            p \in {q \in Perms(hits) : \A i, j \in 1..n : i < j => Rank(q[i]) <= Rank(q[j])}}

\* search.py 312-317: parentItemID of the attachments joined to the matching rows; the
\* statement has no ORDER BY, any order of the joined rows may come back
ParentResults(d, tb, qs) ==
    LET hits == {r \in tb.rows : MatchAll(r.text, qs)}
        joined == UNION {{[parent |-> a.parentItemID, row |-> r] :
                            r \in {h \in hits : h.id = a.itemID}} : a \in d.itemAttachments}
        n == Cardinality(joined)
    IN  {[i \in 1..n |-> p[i].parent] : p \in Perms(joined)}

(***************************************************************************)
(* The statements of the three functions, in the order of the source.      *)
(***************************************************************************)
S(kind, ref, ncols) == [stmt |-> kind, tbl |-> ref, cols |-> ncols]

\* search.py 145-180
ProgramAuthors ==
    << S("drop_entry", TempSearchable, 0), S("create", TempSearchable, 3),
       S("populate", TempSearchable, 3), S("query", TempSearchable, 0),
       S("drop_exit", TempSearchable, 0) >>

\* search.py 209-241
ProgramFields ==
    << S("drop_entry", TempSearchable, 0), S("create", TempSearchable, 2),
       S("populate", TempSearchable, 2), S("query", TempSearchable, 0),
       S("drop_exit", TempSearchable, 0) >>

\* search.py 270-323
ProgramFullTexts ==
    << S("drop_entry", Searchable1, 0), S("drop_entry", TempSearchable2, 0),
       S("create", Searchable1, 2), S("rebuild", Searchable1, 0),
       S("create", TempSearchable2, 2), S("populate", TempSearchable2, 2),
       S("query", TempSearchable2, 0),
       S("drop_exit", Searchable1, 0), S("drop_exit", TempSearchable2, 0) >>

Program(o) ==
    CASE o = "search_authors" -> ProgramAuthors
      [] o = "search_fields" -> ProgramFields
      [] o = "search_full_texts" -> ProgramFullTexts

\* the names a function uses for its transient structures
NamesOf(o) == {Program(o)[i].tbl.name : i \in 1..Len(Program(o))}

\* (variant) the populate statement is left out
NextStmtSkipPopulate(o, i) ==
    IF i < Len(Program(o))
    THEN IF Program(o)[i + 1].stmt = "populate" THEN i + 2 ELSE i + 1
    ELSE 0

\* the statement after statement i; 0: the function returns
NextStmt(o, i) == IF i < Len(Program(o)) THEN i + 1 ELSE 0

(***************************************************************************)
(* State.                                                                  *)
(***************************************************************************)
VARIABLES
    db,         \* the persistent content of the database file
    main,       \* transient objects of the main schema
    temp,       \* transient objects of each connection's temp schema
    connOf,     \* the connection each caller thread passes as conn
    pc,         \* per thread: the statement to execute next (0: not in a call)
    op,         \* per thread: the function called
    keys,       \* per thread: the keys argument as passed
    toks,       \* per thread: keys after lines 148 / 212 / 286
    item_ids,   \* per thread: the item_ids argument
    results,    \* per thread: the local variable results
    outcome,    \* per thread: what the caller got from the last call
    calls,      \* per thread: the number of calls made
    cleared,    \* per thread: residual tables the entry drops of this call removed
    agg         \* authors_agg: its argument data and, once it has returned, the label

vars == <<db, main, temp, connOf, pc, op, keys, toks, item_ids, results, outcome, calls, cleared,
          agg>>

\* authors_agg is not in use
NoAgg == [data |-> <<>>, returned |-> FALSE, label |-> <<>>]

NoOutcome == [kind |-> "none", rows |-> <<>>, error |-> "", at |-> 0]

CallId(t) == <<t, calls[t]>>

Stmt(t) == Program(op[t])[pc[t]]

InitCommon ==
    /\ main = EmptySchema
    /\ temp = [c \in Conns |-> EmptySchema]
    /\ pc = [t \in Threads |-> 0]
    /\ op = [t \in Threads |-> "search_authors"]
    /\ keys = [t \in Threads |-> <<>>]
    /\ toks = [t \in Threads |-> <<>>]
    /\ item_ids = [t \in Threads |-> NoneIds]
    /\ results = [t \in Threads |-> <<>>]
    /\ outcome = [t \in Threads |-> NoOutcome]
    /\ calls = [t \in Threads |-> 0]
    /\ cleared = [t \in Threads |-> {}]

\* every caller passes the same connection
Init ==
    /\ db = SharedDatabase
    /\ connOf = [t \in Threads |-> 1]
    /\ InitCommon
    /\ agg = NoAgg

\* two callers, each with a connection of its own to the same file
InitTwoConns ==
    /\ db = SharedDatabase
    /\ connOf = [t \in Threads |-> t]
    /\ InitCommon
    /\ agg = NoAgg

\* authors_agg is about to be called with any sequence of last names
InitAgg ==
    /\ db = SharedDatabase
    /\ connOf = [t \in Threads |-> 1]
    /\ InitCommon
    /\ agg \in {[data |-> d, returned |-> FALSE, label |-> <<>>] : d \in SeqUpTo(LastNames, MaxAuthors)}

\* a fresh connection to any database
InitSearch ==
    /\ db \in Databases
    /\ connOf = [t \in Threads |-> 1]
    /\ InitCommon
    /\ agg = NoAgg

(***************************************************************************)
(* Steps of a call.                                                        *)
(***************************************************************************)
\* the caller enters one of the three functions
Call(t, K, I, maxCalls) ==
    /\ pc[t] = 0
    /\ calls[t] < maxCalls
    /\ \E o \in Ops, k \in K, ids \in I :
        /\ op' = [op EXCEPT ![t] = o]
        /\ keys' = [keys EXCEPT ![t] = k]
        /\ item_ids' = [item_ids EXCEPT ![t] = ids]
    /\ pc' = [pc EXCEPT ![t] = 1]
    /\ calls' = [calls EXCEPT ![t] = @ + 1]
    /\ toks' = [toks EXCEPT ![t] = <<>>]
    /\ results' = [results EXCEPT ![t] = <<>>]
    /\ outcome' = [outcome EXCEPT ![t] = NoOutcome]
    /\ cleared' = [cleared EXCEPT ![t] = {}]
    /\ UNCHANGED <<agg, db, main, temp, connOf>>

\* the statement at pc raises: the exception leaves the function at once
Raise(t, e) ==
    /\ pc' = [pc EXCEPT ![t] = 0]
    /\ outcome' = [outcome EXCEPT ![t] = [kind |-> "raised", rows |-> <<>>, error |-> e, at |-> pc[t]]]
    /\ keys' = [keys EXCEPT ![t] = <<>>]
    /\ toks' = [toks EXCEPT ![t] = <<>>]
    /\ item_ids' = [item_ids EXCEPT ![t] = NoneIds]

\* the statement at pc ended; the function goes on, or returns results
Proceed(t, res) ==
    IF NextStmt(op[t], pc[t]) = 0
    THEN /\ pc' = [pc EXCEPT ![t] = 0]
         /\ outcome' = [outcome EXCEPT ![t] = [kind |-> "returned", rows |-> res, error |-> "", at |-> 0]]
         /\ keys' = [keys EXCEPT ![t] = <<>>]
         /\ toks' = [toks EXCEPT ![t] = <<>>]
         /\ item_ids' = [item_ids EXCEPT ![t] = NoneIds]
    ELSE /\ pc' = [pc EXCEPT ![t] = NextStmt(op[t], pc[t])]
         /\ UNCHANGED <<outcome, keys, toks, item_ids>>

\* a statement changed the schemas, or failed and left them alone
Apply(t, r) ==
    /\ main' = r.main
    /\ temp' = r.temp

\* DROP TABLE IF EXISTS at the start of a call; after the last of them the keys are quoted
DropEntry(t) ==
    /\ pc[t] > 0 /\ Stmt(t).stmt = "drop_entry"
    /\ LET r == DropTableIfExists(main, temp, connOf[t], Stmt(t).tbl)
           last == Program(op[t])[NextStmt(op[t], pc[t])].stmt # "drop_entry"
       IN  /\ Apply(t, r)
           /\ cleared' = [cleared EXCEPT ![t] =
                            IF Exists(TableAt(main, temp, connOf[t], Stmt(t).tbl))
                            THEN @ \cup {Stmt(t).tbl.name} ELSE @]
           /\ pc' = [pc EXCEPT ![t] = NextStmt(op[t], pc[t])]
           /\ toks' = [toks EXCEPT ![t] = IF last THEN QuotedKeys(keys[t]) ELSE @]
           /\ keys' = [keys EXCEPT ![t] = IF last THEN <<>> ELSE @]
    /\ UNCHANGED <<agg, db, connOf, op, item_ids, results, outcome, calls>>

\* CREATE VIRTUAL TABLE ... USING FTS5
Create(t) ==
    /\ pc[t] > 0 /\ Stmt(t).stmt = "create"
    /\ LET r == CreateVirtualTable(main, temp, connOf[t], Stmt(t).tbl, Stmt(t).cols, CallId(t))
       IN  /\ Apply(t, r)
           /\ IF r.err = "" THEN Proceed(t, results[t]) ELSE Raise(t, r.err)
    /\ UNCHANGED <<agg, db, connOf, op, results, calls, cleared>>

\* INSERT INTO searchable1(searchable1) VALUES('rebuild')
Rebuild(t) ==
    /\ pc[t] > 0 /\ Stmt(t).stmt = "rebuild"
    /\ LET c == connOf[t]
           tb == TableAt(main, temp, c, Stmt(t).tbl)
           r == IF ~Exists(tb) THEN Failed(main, temp, "no such table")
                ELSE WithTable(main, temp, c, SchemaOf(temp, c, Stmt(t).tbl), Stmt(t).tbl.name,
                        [tb EXCEPT !.phase = "POPULATED",
                                   !.rows = {[id |-> v.id, text |-> v.text, by |-> CallId(t)] :
                                                v \in VocabularyRows}])
       IN  /\ Apply(t, r)
           /\ IF r.err = "" THEN Proceed(t, results[t]) ELSE Raise(t, r.err)
    /\ UNCHANGED <<agg, db, connOf, op, results, calls, cleared>>

\* INSERT INTO <index> SELECT itemID, GROUP_CONCAT(...) ... GROUP BY itemID
Populate(t) ==
    /\ pc[t] > 0 /\ Stmt(t).stmt = "populate"
    /\ LET c == connOf[t]
           s1 == TableAt(main, temp, c, Searchable1)
           r == CASE op[t] = "search_authors" ->
                        InsertInto(main, temp, c, Stmt(t).tbl, Stmt(t).cols, AuthorRows(item_ids[t]), CallId(t))
                  [] op[t] = "search_fields" ->
                        InsertInto(main, temp, c, Stmt(t).tbl, Stmt(t).cols, FieldRows(item_ids[t]), CallId(t))
                  [] op[t] = "search_full_texts" ->
                        IF ~Exists(s1) THEN Failed(main, temp, "no such table")
                        ELSE IF SyntaxError(toks[t]) /\ Exists(TableAt(main, temp, c, Stmt(t).tbl))
                             THEN Failed(main, temp, "fts5: syntax error")
                        ELSE LET q == Selected(main, temp, c, Searchable1)
                                 w == InsertInto(q.main, q.temp, c, Stmt(t).tbl, Stmt(t).cols,
                                                 FullTextRows(db, item_ids[t], s1, toks[t]), CallId(t))
                             IN  IF w.err = "" THEN w ELSE Failed(main, temp, w.err)
       IN  /\ Apply(t, r)
           /\ IF r.err = "" THEN Proceed(t, results[t]) ELSE Raise(t, r.err)
    /\ UNCHANGED <<agg, db, connOf, op, results, calls, cleared>>

\* pandas.read_sql_query(SELECT ... MATCH keys ...): the rows become the local results
Query(t) ==
    /\ pc[t] > 0 /\ Stmt(t).stmt = "query"
    /\ LET c == connOf[t]
           tb == TableAt(main, temp, c, Stmt(t).tbl)
       IN  IF ~Exists(tb)
           THEN /\ Raise(t, "no such table")
                /\ UNCHANGED <<main, temp, results>>
           ELSE IF SyntaxError(toks[t])
           THEN /\ Raise(t, "fts5: syntax error")
                /\ UNCHANGED <<main, temp, results>>
           ELSE \E rows \in (IF op[t] = "search_full_texts"
                             THEN ParentResults(db, tb, toks[t])
                             ELSE RankedResults(tb, toks[t])) :
                    /\ Apply(t, Selected(main, temp, c, Stmt(t).tbl))
                    /\ results' = [results EXCEPT ![t] = rows]
                    /\ Proceed(t, rows)
    /\ UNCHANGED <<agg, db, connOf, op, calls, cleared>>

\* DROP TABLE IF EXISTS at the end of a call; after the last of them results is returned
DropExit(t) ==
    /\ pc[t] > 0 /\ Stmt(t).stmt = "drop_exit"
    /\ Apply(t, DropTableIfExists(main, temp, connOf[t], Stmt(t).tbl))
    /\ Proceed(t, results[t])
    /\ UNCHANGED <<agg, db, connOf, op, results, calls, cleared>>

\* the statement at pc fails in the store (I/O error, interrupt): it has no effect and raises
Fault(t) ==
    /\ pc[t] > 0
    /\ Raise(t, "injected")
    /\ UNCHANGED <<agg, db, main, temp, connOf, op, results, calls, cleared>>

(***************************************************************************)
(* process.py: the label of a list of authors.                             *)
(***************************************************************************)
\* (variant) the two-author form is used for two and more names
authors_agg_two_or_more(data) ==
    IF Len(data) = 0 THEN <<>>
    ELSE IF Len(data) = 1 THEN data[1]
    ELSE IF Len(data) >= 2 THEN data[1] \o <<" ", "a", "n", "d", " ">> \o data[2]
    ELSE data[1] \o <<" ", "e", "t", " ", "a", "l", ".">>

\* process.py 31-41; "{0[0]} and {0[1]}".format(data), "{} et al.".format(data[0])
authors_agg(data) ==
    IF Len(data) = 0 THEN <<>>
    ELSE IF Len(data) = 1 THEN data[1]
    ELSE IF Len(data) = 2 THEN data[1] \o <<" ", "a", "n", "d", " ">> \o data[2]
    ELSE data[1] \o <<" ", "e", "t", " ", "a", "l", ".">>

\* the call authors_agg(data) returns
CallAuthorsAgg ==
    /\ ~agg.returned
    /\ agg' = [agg EXCEPT !.returned = TRUE, !.label = authors_agg(agg.data)]
    /\ UNCHANGED <<db, main, temp, connOf, pc, op, keys, toks, item_ids, results, outcome, calls,
                   cleared>>

(***************************************************************************)
(* Specifications.                                                         *)
(***************************************************************************)
\* calls made one after the other on one connection, any statement may fail
Next ==
    \/ Call(1, StrUpTo(MaxShortKeyLen), ItemIdsUpTo(MaxIds), MaxCalls)
    \/ DropEntry(1)
    \/ Create(1)
    \/ Rebuild(1)
    \/ Populate(1)
    \/ Query(1)
    \/ DropExit(1)
    \/ Fault(1)

Spec == Init /\ [][Next]_vars

\* one search on a fresh connection, no statement fails on its own
NextSearch ==
    \/ Call(1, StrUpTo(MaxKeyLen), ItemIdsUpTo(MaxIds), 1)
    \/ DropEntry(1)
    \/ Create(1)
    \/ Rebuild(1)
    \/ Populate(1)
    \/ Query(1)
    \/ DropExit(1)

SpecSearch == InitSearch /\ [][NextSearch]_vars

\* two threads whose statements interleave; no statement fails on its own
NextConc ==
    \E t \in Threads :
        \/ Call(t, StrUpTo(MaxShortKeyLen), {NoneIds}, MaxConcCalls)
        \/ DropEntry(t)
        \/ Create(t)
        \/ Rebuild(t)
        \/ Populate(t)
        \/ Query(t)
        \/ DropExit(t)

SpecTwoConns == InitTwoConns /\ [][NextConc]_vars

SpecSameConn == Init /\ [][NextConc]_vars

\* one call of authors_agg
NextAgg == CallAuthorsAgg

SpecAgg == InitAgg /\ [][NextAgg]_vars

(***************************************************************************)
(* Properties.                                                             *)
(***************************************************************************)
\* a transient structure of that name can be seen from connection c
Visible(c, n) == Exists(temp[c][n]) \/ Exists(main[n])

Ended(t) == pc[t] = 0 /\ outcome[t].kind # "none"

Running(t) == pc[t] > 0

\* C1: once a call has returned or raised, no transient search structure (temp.searchable,
\* searchable1, temp.searchable2) exists on its connection
C1_NoTransientAfterCall ==
    \A t \in Threads : Ended(t) => \A n \in TransientNames : ~Visible(connOf[t], n)

\* the objects of the persistent (main) schema
MainObjects == PersistentTables \cup {n \in TransientNames : Exists(main[n])}

\* C2: in every reachable state the objects of the persistent schema are those that
\* existed before the first call
C2_PersistentSchemaUntouched == MainObjects = PersistentTables

\* the entry drops of the running call are done: its first create comes next
EntryDone(t) ==
    /\ Running(t)
    /\ Stmt(t).stmt = "create"
    /\ Program(op[t])[pc[t] - 1].stmt = "drop_entry"

NotBlocked(t) == outcome[t].error # "table already exists"

Held(t) ==
    {i \in 1..(pc[t] - 1) :
        /\ Program(op[t])[i].stmt = "create"
        /\ \A j \in (i + 1)..(pc[t] - 1) : Program(op[t])[j].tbl # Program(op[t])[i].tbl}

\* every structure the running call created is still there, is the one it created, and holds
\* only rows it inserted itself
OwnTables(t) ==
    Running(t) =>
        \A i \in Held(t) :
            LET tb == TableAt(main, temp, connOf[t], Program(op[t])[i].tbl)
            IN  /\ Exists(tb)
                /\ tb.creator = CallId(t)
                /\ \A r \in tb.rows : r.by = CallId(t)

\* the result sequences of a call that runs alone on a connection without residue
AloneResults(d, o, qs, ids) ==
    CASE o = "search_authors" -> RankedResults([rows |-> AuthorRows(ids)], qs)
      [] o = "search_fields" -> RankedResults([rows |-> FieldRows(ids)], qs)
      [] o = "search_full_texts" ->
            ParentResults(d, [rows |-> FullTextRows(d, ids, [rows |-> VocabularyRows], qs)], qs)

\* the query statement of the running call has produced results
QueryDone(t) == Running(t) /\ Stmt(t).stmt = "drop_exit"

InterferenceErrors == {"table already exists", "no such table", "column count"}

\* C4: calls on two independent connections never interfere: no create fails because of the
\* other call, no call loses or shares a structure it created, and each call gets the result
\* it would get alone
C4_IndependentConnections ==
    \A t \in Threads :
        /\ outcome[t].error \notin InterferenceErrors
        /\ OwnTables(t)
        /\ QueryDone(t) => results[t] \in AloneResults(db, op[t], toks[t], item_ids[t])

SingleInserter ==
    \A c \in Conns, n \in TransientNames :
        /\ Cardinality({r.by : r \in temp[c][n].rows}) <= 1
        /\ Cardinality({r.by : r \in main[n].rows}) <= 1

\* C5: calls on the same connection are kept apart (by mutual exclusion or by names of
\* their own), so that in every interleaving no call drops, populates or queries a structure
\* another running call created and no index holds rows inserted by two calls
C5_SameConnectionSafe ==
    /\ \A t \in Threads : OwnTables(t)
    /\ SingleInserter

TableKeys == {<<0, n>> : n \in TransientNames} \cup (Conns \X TransientNames)

\* C6: within the calls of a connection every transient index goes UNCREATED, CREATED,
\* POPULATED, QUERIED and back to UNCREATED (dropped) in that order, one step at a time; the
\* only other change of an index is the forced drop by the entry drops of a call
C6_Lifecycle ==
    [][\A k \in TableKeys :
        LET old == IF k[1] = 0 THEN main[k[2]] ELSE temp[k[1]][k[2]]
            new == IF k[1] = 0 THEN main'[k[2]] ELSE temp'[k[1]][k[2]]
            entry == \E t \in Threads : Running(t) /\ Stmt(t).stmt = "drop_entry" /\ pc'[t] # pc[t]
        IN  old # new =>
                \/ old.phase = "UNCREATED" /\ new.phase = "CREATED"
                \/ old.phase = "CREATED" /\ new.phase = "POPULATED"
                \/ old.phase = "POPULATED" /\ new.phase = "QUERIED"
                \/ old.phase = "QUERIED" /\ new.phase = "UNCREATED" /\ ~entry
                \/ new.phase = "UNCREATED" /\ entry]_vars

\* both indexes of a search_full_texts call have been created, populated and queried
C6_Witness ==
    /\ Running(1)
    /\ main["searchable1"].phase = "QUERIED"
    /\ temp[1]["searchable2"].phase = "QUERIED"
    /\ temp[1]["searchable2"].rows # {}

\* the keys of the running call hold no token
NoToken(t) == Running(t) /\ Split(keys[t]) = <<>> /\ toks[t] = <<>>

\* C7: a call whose keys hold no token is rejected before it issues a statement: at no time
\* is there a transient structure this call created
C7_EmptyKeysRejected ==
    \A t \in Threads :
        NoToken(t) =>
            \A c \in Conns, n \in TransientNames :
                temp[c][n].creator # CallId(t) /\ main[n].creator # CallId(t)

FailedAtExitDrop(t) ==
    /\ Ended(t)
    /\ outcome[t].kind = "raised"
    /\ Program(op[t])[outcome[t].at].stmt = "drop_exit"

\* C8: when a final drop fails after the query produced its rows, the caller still gets them
C8_ResultSurvivesDropFailure ==
    \A t \in Threads :
        FailedAtExitDrop(t) => outcome[t].rows = results[t] /\ outcome[t].kind # "raised"

NoDuplicates(s) == \A i, j \in 1..Len(s) : s[i] = s[j] => i = j

\* C9: the returned item-id sequence holds no identifier twice
C9_NoDuplicateIds ==
    \A t \in Threads : outcome[t].kind = "returned" => NoDuplicates(outcome[t].rows)

\* the ids of the documents: the items whose type is not attachment
Documents ==
    {i.itemID : i \in {x \in items : \E ty \in itemTypes :
                            ty.itemTypeID = x.itemTypeID /\ ty.typeName # "attachment"}}

\* the indexed text of an attachment holds every key
AttachmentMatches(d, a, qs) ==
    \A i \in 1..Len(qs) :
        \E r \in d.fulltextItemWords, w \in fulltextWords :
            r.itemID = a /\ r.wordID = w.wordID /\ SameToken(w.word, qs[i])

\* C10: every id search_full_texts produces is the parentItemID of an attachment whose text
\* matched and the id of a document, never an attachment's own id, never NULL
C10_ParentDocumentIds ==
    \A t \in Threads :
        (QueryDone(t) /\ op[t] = "search_full_texts") =>
            \A i \in 1..Len(results[t]) :
                /\ results[t][i] # NULL
                /\ results[t][i] \in Documents
                /\ \E a \in db.itemAttachments :
                        /\ a.parentItemID = results[t][i]
                        /\ AttachmentMatches(db, a.itemID, toks[t])

Range(s) == {s[i] : i \in 1..Len(s)}

\* the ids the function returns for these keys on this content when item_ids is None
UnfilteredIds(d, o, qs) == UNION {Range(r) : r \in AloneResults(d, o, qs, NoneIds)}

\* C11: for each of the three functions, whatever the keys and item_ids, every id the call
\* produces is among the ids the same call produces with item_ids=None on the same content
C11_FilteredSubset ==
    \A t \in Threads :
        QueryDone(t) => Range(results[t]) \subseteq UnfilteredIds(db, op[t], toks[t])

\* a filtered call produced some ids, but fewer than the unfiltered call produces
C11_Witness ==
    /\ QueryDone(1)
    /\ item_ids[1].given
    /\ results[1] # <<>>
    /\ Range(results[1]) # UnfilteredIds(db, op[1], toks[1])

\* the argument item_ids=[]
EmptyIds == [given |-> TRUE, ids |-> <<>>]

\* C12: for each of the three functions a call with an empty item_ids sequence returns the
\* empty result: no statement of it raises, and when it returns the rows are empty and no
\* transient structure is left on its connection
C12_EmptyItemIds ==
    [][\A t \in Threads :
        (Running(t) /\ item_ids[t] = EmptyIds) =>
            /\ outcome'[t].kind # "raised"
            /\ outcome'[t].kind = "returned" =>
                    /\ outcome'[t].rows = <<>>
                    /\ \A n \in TransientNames : ~(Exists(temp'[connOf[t]][n]) \/ Exists(main'[n]))]_vars

\* search.py 47: the default of ignored_types (search_fields_simple; search_fields has no
\* such parameter)
IgnoredTypes == {"attachment", "note"}

\* the items whose type is an ignored one
IgnoredItems ==
    {i.itemID : i \in {x \in items : \E ty \in itemTypes :
                            ty.itemTypeID = x.itemTypeID /\ ty.typeName \in IgnoredTypes}}

\* C13: search_fields never produces an item whose type is an ignored one (attachment, note),
\* whatever the keys and also when item_ids names such an item
C13_FieldsSkipIgnoredTypes ==
    \A t \in Threads :
        (QueryDone(t) /\ op[t] = "search_fields") => Range(results[t]) \cap IgnoredItems = {}

\* a name of a creator of the item is the key
AuthorHas(id, q) ==
    \E r \in itemCreators, c \in creators :
        /\ r.itemID = id /\ c.creatorID = r.creatorID
        /\ SameToken(c.firstName, q) \/ SameToken(c.lastName, q)

\* a field value of the item is the key
FieldHas(id, q) ==
    \E r \in itemData, v \in itemDataValues :
        r.itemID = id /\ v.valueID = r.valueID /\ SameToken(v.value, q)

\* C14: for a non-empty list of keys each function produces an item only if the text
\* aggregated for it holds every key: the names of its creators (search_authors), its field
\* values (search_fields), the words of one attachment of it (search_full_texts, whose first
\* stage joins the keys by OR)
C14_EveryTokenMatched ==
    \A t \in Threads :
        QueryDone(t) =>
            \A n \in 1..Len(results[t]) :
                LET id == results[t][n]
                IN  CASE op[t] = "search_authors" ->
                            \A i \in 1..Len(toks[t]) : AuthorHas(id, toks[t][i])
                      [] op[t] = "search_fields" ->
                            \A i \in 1..Len(toks[t]) : FieldHas(id, toks[t][i])
                      [] op[t] = "search_full_texts" ->
                            \E a \in db.itemAttachments :
                                a.parentItemID = id /\ AttachmentMatches(db, a.itemID, toks[t])

\* search_full_texts with two different keys produced a document although another attachment
\* holds only one of the keys
C14_Witness ==
    /\ QueryDone(1)
    /\ op[1] = "search_full_texts"
    /\ Len(toks[1]) = 2 /\ toks[1][1] # toks[1][2]
    /\ results[1] # <<>>
    /\ \E a \in db.itemAttachments :
            /\ ~AttachmentMatches(db, a.itemID, toks[1])
            /\ \E i \in 1..2 : AttachmentMatches(db, a.itemID, <<toks[1][i]>>)

\* the index the running call has queried
QueriedTable(t) ==
    TableAt(main, temp, connOf[t],
            (CHOOSE st \in Range(Program(op[t])) : st.stmt = "query").tbl)

\* the rows that matched, each with the id the query returns for it and with its rank
RankedHits(t) ==
    LET hits == {r \in QueriedTable(t).rows : MatchAll(r.text, toks[t])}
    IN  IF op[t] = "search_full_texts"
        THEN UNION {{[row |-> r.id, id |-> a.parentItemID, rank |-> Rank(r)] :
                        r \in {h \in hits : h.id = a.itemID}} : a \in db.itemAttachments}
        ELSE {[row |-> r.id, id |-> r.id, rank |-> Rank(r)] : r \in hits}

\* the sequence of ids is that of the matching rows in an order of ascending rank
InRankOrder(t) ==
    \E p \in Perms(RankedHits(t)) :
        /\ \A i, j \in 1..Len(p) : i < j => p[i].rank <= p[j].rank
        /\ results[t] = [i \in 1..Len(p) |-> p[i].id]

\* C15: the query of each of the three functions produces its rows by ascending rank: of two
\* ids the one of the row with the lower rank value comes first, for search_full_texts with
\* the parent id in the place of the attachment's row
C15_OrderedByRank ==
    \A t \in Threads : QueryDone(t) => InRankOrder(t)

\* C16: authors_agg maps a sequence of last names to a label by its length: no name to the
\* empty string, one name to that name, two names to "<first> and <second>", three or more
\* names to "<first> et al.", <first> being the element at position 0
C16_AuthorLabel ==
    agg.returned =>
        LET n == Len(agg.data)
        IN  /\ n = 0 => agg.label = <<>>
            /\ n = 1 => agg.label = agg.data[1]
            /\ n = 2 => agg.label = agg.data[1] \o <<" ", "a", "n", "d", " ">> \o agg.data[2]
            /\ n >= 3 => agg.label = agg.data[1] \o <<" ", "e", "t", " ", "a", "l", ".">>

\* authors_agg has returned the label of more than three names, not all the same
C16_Witness ==
    /\ agg.returned
    /\ Len(agg.data) > 3
    /\ agg.data[1] # agg.data[2]
    /\ agg.label # <<>>

\* the attachment is one the item_ids filter lets through
Selects(ids, a) ==
    \/ ~ids.given
    \/ InIds(a.itemID, ids.ids)
    \/ a.parentItemID # NULL /\ InIds(a.parentItemID, ids.ids)

\* one-stage reference: the parents of the selected attachments whose words, all of them
\* taken, hold every key
OneStageIds(d, qs, ids) ==
    {a.parentItemID : a \in {x \in d.itemAttachments :
                                Selects(ids, x) /\ AttachmentMatches(d, x.itemID, qs)}}

\* C17: the narrowing of the vocabulary does not change the result of search_full_texts: for
\* every database, list of keys and item_ids the set of ids of the two-stage search (the
\* vocabulary reduced to the words matching any key, then aggregated per attachment and matched
\* against all keys) is the set of the one-stage reference
C17_NarrowingPreservesResult ==
    \A t \in Threads :
        (QueryDone(t) /\ op[t] = "search_full_texts") =>
            Range(results[t]) = OneStageIds(db, toks[t], item_ids[t])

\* search_full_texts produced ids although the narrowing had removed a word of an attachment
\* from the index
C17_Witness ==
    /\ QueryDone(1)
    /\ op[1] = "search_full_texts"
    /\ results[1] # <<>>
    /\ \E r \in db.fulltextItemWords, w \in fulltextWords :
            /\ r.wordID = w.wordID
            /\ ~MatchAny(<<w.word>>, toks[1])
            /\ \E x \in QueriedTable(1).rows : x.id = r.itemID /\ MatchAll(x.text, toks[1])
====
